---------------------------- MODULE Spec2Model ----------------------------
(***************************************************************************)
(* Model of youtube_manager.py: a single-process interactive catalogue of   *)
(* video records kept in memory as a list of dicts and persisted as one     *)
(* JSON array, written with a temp-file-then-replace save.                   *)
(*                                                                           *)
(* Representation.                                                           *)
(*   - A Python str is a sequence of code points (<<121,101,115>> = "yes"). *)
(*   - A Python value is tagged: <<"int", n>>, <<"str", s>>, <<"list", ss>>, *)
(*     <<"none", 0>>.                                                        *)
(*   - A video (a dict) is a function from its keys to tagged values; a key *)
(*     the dict lacks is outside the function's DOMAIN.                      *)
(*   - A file's content is a sequence of JSON tokens; NoFile is a path that *)
(*     does not exist.                                                       *)
(*   - An operator interrupt (Ctrl+C, KeyboardInterrupt) raised at a prompt *)
(*     is the pseudo input INT.                                              *)
(***************************************************************************)
EXTENDS Integers, Sequences, FiniteSets, TLC

VARIABLES
    pc,         \* where the process is: start (before load_data), menu (at the
                \* "Enter choice" prompt), save_create, save_write, save_replace
                \* (inside save_data_atomic), done (the handler has returned to
                \* main_loop), exited, crashed
    videos,     \* main_loop's list of dicts
    disk,       \* content of DATA_FILE, or NoFile
    corrupt,    \* content of DATA_FILE + ".corrupt", or NoFile
    tmp,        \* content of the temp file of the save under way, or NoFile
    orphans,    \* temp files left behind by failed saves
    faults,     \* I/O failures the environment has produced so far
    last,       \* <<operation, outcome>>: the message of the operation under way
                \* or just returned; none at the menu prompt
    saved,      \* what save_data_atomic did in that operation: none, ok, failed
    issued      \* history: every id add_video has assigned in this run

vars == <<pc, videos, disk, corrupt, tmp, orphans, faults, last, saved, issued>>

-----------------------------------------------------------------------------
(* Bounds of the model *)

MaxVideos == 2

MaxId == 3

MaxFaults == 1

-----------------------------------------------------------------------------
(* Strings: str.strip, str.lower, str.isdigit, int(str), str.split(",")     *)

SPACE == 32

TAB == 9

COMMA == 44

MINUS == 45

Whitespace == {SPACE, TAB}

Digits == 48..57

\* "", the empty str
EMPTY == <<>>

\* KeyboardInterrupt raised by input()
INT == <<-1>>

RECURSIVE LStrip(_)
LStrip(s) == IF s # <<>> /\ Head(s) \in Whitespace THEN LStrip(Tail(s)) ELSE s

RECURSIVE RStrip(_)
RStrip(s) ==
    IF s # <<>> /\ s[Len(s)] \in Whitespace
    THEN RStrip(SubSeq(s, 1, Len(s) - 1))
    ELSE s

Strip(s) == RStrip(LStrip(s))

LowerChar(c) == IF c \in 65..90 THEN c + 32 ELSE c

Lower(s) == [i \in 1..Len(s) |-> LowerChar(s[i])]

IsDigit(s) == s # <<>> /\ \A i \in 1..Len(s) : s[i] \in Digits

RECURSIVE DigitsValue(_)
DigitsValue(s) ==
    IF s = <<>> THEN 0
    ELSE 10 * DigitsValue(SubSeq(s, 1, Len(s) - 1)) + (s[Len(s)] - 48)

\* int(str) succeeds on an optionally signed run of digits, blanks around it ignored
StrIsInt(s) ==
    LET t == Strip(s)
    IN  \/ IsDigit(t)
        \/ t # <<>> /\ Head(t) = MINUS /\ IsDigit(Tail(t))

StrToInt(s) ==
    LET t == Strip(s)
    IN  IF Head(t) = MINUS THEN 0 - DigitsValue(Tail(t)) ELSE DigitsValue(t)

RECURSIVE Split(_, _)
Split(s, sep) ==
    IF \A i \in 1..Len(s) : s[i] # sep THEN <<s>>
    ELSE LET i == CHOOSE j \in 1..Len(s) :
                      s[j] = sep /\ \A k \in 1..(j - 1) : s[k] # sep
         IN  <<SubSeq(s, 1, i - 1)>> \o Split(SubSeq(s, i + 1, Len(s)), sep)

RECURSIVE StripNonEmpty(_)
StripNonEmpty(parts) ==
    IF parts = <<>> THEN <<>>
    ELSE (IF Strip(Head(parts)) # <<>> THEN <<Strip(Head(parts))>> ELSE <<>>)
         \o StripNonEmpty(Tail(parts))

\* [t.strip() for t in tags_raw.split(",") if t.strip()] if tags_raw else []
ParseTags(tags_raw) ==
    IF tags_raw = EMPTY THEN <<>> ELSE StripNonEmpty(Split(tags_raw, COMMA))

\* Python's < on two str: lexicographic by code point
RECURSIVE StrLess(_, _)
StrLess(a, b) ==
    IF b = <<>> THEN FALSE
    ELSE IF a = <<>> THEN TRUE
    ELSE IF Head(a) # Head(b) THEN Head(a) < Head(b)
    ELSE StrLess(Tail(a), Tail(b))

-----------------------------------------------------------------------------
(* Python values and dicts *)

PyInt(n) == <<"int", n>>

PyStr(s) == <<"str", s>>

PyList(ss) == <<"list", ss>>

PyNone == <<"none", 0>>

\* dict.get(key, default)
Get(v, key, default) == IF key \in DOMAIN v THEN v[key] ELSE default

\* int(x) raises ValueError/TypeError unless x is an int or a str holding one
IntOk(x) == \/ x[1] = "int"
            \/ x[1] = "str" /\ StrIsInt(x[2])

ToInt(x) == IF x[1] = "int" THEN x[2] ELSE StrToInt(x[2])

\* bool(x): 0, "", [] and None are falsy
Truthy(x) == CASE x[1] = "int"  -> x[2] # 0
               [] x[1] = "str"  -> x[2] # <<>>
               [] x[1] = "list" -> x[2] # <<>>
               [] OTHER         -> FALSE

SeqMax(s) == CHOOSE m \in {s[i] : i \in 1..Len(s)} : \A i \in 1..Len(s) : s[i] <= m

-----------------------------------------------------------------------------
(* Utility helpers *)

\* a faulty allocator: the smallest id >= 1 that no record carries
next_id_first_gap(vs) ==
    CHOOSE n \in 1..(Len(vs) + 1) :
        /\ \A i \in 1..Len(vs) : Get(vs[i], "id", PyInt(0)) # PyInt(n)
        /\ \A m \in 1..(n - 1) : \E i \in 1..Len(vs) : Get(vs[i], "id", PyInt(0)) = PyInt(m)

\* a faulty allocator: ids int() rejects are skipped instead of falling back
next_id_skips_malformed(vs) ==
    LET ok == {i \in 1..Len(vs) : IntOk(Get(vs[i], "id", PyInt(0)))}
    IN  IF ok = {} THEN 1
        ELSE (CHOOSE m \in {ToInt(Get(vs[i], "id", PyInt(0))) : i \in ok} :
                 \A i \in ok : ToInt(Get(vs[i], "id", PyInt(0))) <= m) + 1

\* a faulty allocator: the count of records plus one, whatever the ids
next_id_count(vs) == Len(vs) + 1

next_id(vs) ==
    IF vs = <<>> THEN 1
    ELSE IF \A i \in 1..Len(vs) : IntOk(Get(vs[i], "id", PyInt(0)))
         THEN SeqMax([i \in 1..Len(vs) |-> ToInt(Get(vs[i], "id", PyInt(0)))]) + 1
         ELSE Len(vs) + 1

\* 0 stands for None; positions are 1-based (Python's index + 1)
find_index_by_id(vs, video_id) ==
    LET hits == {i \in 1..Len(vs) :
                    /\ "id" \in DOMAIN vs[i]
                    /\ IntOk(vs[i]["id"])
                    /\ ToInt(vs[i]["id"]) = video_id}
    IN  IF hits = {} THEN 0 ELSE CHOOSE i \in hits : \A j \in hits : i <= j

-----------------------------------------------------------------------------
(* JSON: json.dump writes a list of dicts as "[", one object per dict, "]";  *)
(* json.load reads it back.  A file is the sequence of tokens written.       *)

LB == <<"[", <<>>>>

RB == <<"]", <<>>>>

NoFile == << <<"nofile", <<>>>> >>

\* order in which add_video's dict literal and dict.update lay the keys out
KeyOrder == <<"id", "name", "time", "description", "tags">>

\* JSONEncoder: int -> number, str -> string, list -> array, None -> null
EncodeValue(x) == CASE x[1] = "int"  -> <<"number", x[2]>>
                    [] x[1] = "str"  -> <<"string", x[2]>>
                    [] x[1] = "list" -> <<"array", x[2]>>
                    [] OTHER         -> <<"null", 0>>

\* JSONDecoder: number -> int, string -> str, array -> list, null -> None
DecodeValue(j) == CASE j[1] = "number" -> PyInt(j[2])
                    [] j[1] = "string" -> PyStr(j[2])
                    [] j[1] = "array"  -> PyList(j[2])
                    [] OTHER           -> PyNone

RECURSIVE EncodeMembers(_, _)
EncodeMembers(v, keys) ==
    IF keys = <<>> THEN <<>>
    ELSE (IF Head(keys) \in DOMAIN v
          THEN << <<Head(keys), EncodeValue(v[Head(keys)])>> >>
          ELSE <<>>)
         \o EncodeMembers(v, Tail(keys))

EncodeObject(v) == <<"obj", EncodeMembers(v, KeyOrder)>>

DecodeObject(tok) ==
    LET ms == tok[2]
    IN  [k \in {ms[i][1] : i \in 1..Len(ms)} |->
            DecodeValue(ms[CHOOSE i \in 1..Len(ms) : ms[i][1] = k][2])]

\* a faulty serializer: members whose value is "", [] or 0 are left out
json_dump_drops_empty(vs) ==
    <<LB>> \o [i \in 1..Len(vs) |->
                 <<"obj", EncodeMembers(
                     [k \in {q \in DOMAIN vs[i] : Truthy(vs[i][q])} |-> vs[i][k]],
                     KeyOrder)>>] \o <<RB>>

\* json.dump(videos, tmp, ensure_ascii=False, indent=2): the complete text
json_dump(vs) == <<LB>> \o [i \in 1..Len(vs) |-> EncodeObject(vs[i])] \o <<RB>>

\* what json.load makes of a file: "list", "nonlist" (valid JSON of another
\* shape) or "error" (json.JSONDecodeError)
JsonKind(content) ==
    IF /\ Len(content) >= 2
       /\ content[1] = LB
       /\ content[Len(content)] = RB
       /\ \A i \in 2..(Len(content) - 1) : content[i][1] = "obj"
    THEN "list"
    ELSE IF Len(content) = 1 /\ content[1][1] = "obj" THEN "nonlist"
    ELSE "error"

json_load(content) ==
    [i \in 1..(Len(content) - 2) |-> DecodeObject(content[i + 1])]

\* load_data's return value for a file that can be opened
load_data(content) ==
    IF content = NoFile THEN <<>>
    ELSE IF JsonKind(content) = "list" THEN json_load(content)
    ELSE <<>>

-----------------------------------------------------------------------------
(* What the operator types, and the files the program may find at start     *)

S_A == <<65>>                       \* "A"
S_B == <<66>>                       \* "B"
S_a == <<97>>                       \* "a"
S_d == <<100>>                      \* "d"
S_x == <<120>>                      \* "x"
S_y == <<121>>                      \* "y"
S_yes == <<121, 101, 115>>          \* "yes"
S_no == <<110, 111>>                \* "no"
S_name == <<110, 97, 109, 101>>     \* "name"
S_time == <<116, 105, 109, 101>>    \* "time"
S_id == <<105, 100>>                \* "id"
S_1_00 == <<49, 58, 48, 48>>        \* "1:00"

\* the decimal numeral of a one-digit number
Numeral(n) == <<48 + n>>

S_B_padded == <<SPACE>> \o S_B \o <<SPACE>>   \* " B "
S_1_00_padded == <<SPACE>> \o S_1_00          \* " 1:00"
S_tags == <<120, COMMA, SPACE, COMMA, 121>>   \* "x, ,y"
S_1_padded == <<SPACE, 49, SPACE>>            \* " 1 "
S_YES_padded == <<SPACE, 89, 69, 83, SPACE>>  \* " YES "
S_Y_padded == <<SPACE, 89, SPACE>>            \* " Y "
S_Name == <<78, 97, 109, 101>>                \* "Name"

\* add_video's prompts: <<lines typed at Title up to the one that ends it,
\* duration, description, tags>>: a terse record, a full one after a blank
\* title, and Ctrl+C at each prompt
AddInputs ==
    { <<<<S_a>>, EMPTY, EMPTY, EMPTY>>,
      <<<<EMPTY, S_B_padded>>, S_1_00_padded, S_d, S_tags>>,
      <<<<INT>>, EMPTY, EMPTY, EMPTY>>,
      <<<<<<SPACE>>, INT>>, EMPTY, EMPTY, EMPTY>>,
      <<<<S_a>>, INT, EMPTY, EMPTY>>,
      <<<<S_a>>, EMPTY, INT, EMPTY>>,
      <<<<S_a>>, EMPTY, EMPTY, INT>> }

\* a numeral typed at an id prompt
IdNumerals == { Numeral(n) : n \in 1..MaxId }

\* update_video's prompts after the id, <<title, duration, description, tags>>:
\* all blank, all four new
BlankFields == <<EMPTY, <<SPACE>>, EMPTY, EMPTY>>

NewFields == <<S_B_padded, S_1_00_padded, S_d, S_tags>>

\* Ctrl+C at each of the four
InterruptedFields ==
    { <<INT, EMPTY, EMPTY, EMPTY>>, <<S_a, INT, EMPTY, EMPTY>>,
      <<S_a, EMPTY, INT, EMPTY>>, <<S_a, EMPTY, EMPTY, INT>> }

\* update_video's prompts: <<id, <<title, duration, description, tags>>>>
UpdateInputs ==
    (IdNumerals \X {BlankFields, NewFields})
    \cup ({S_1_padded} \X ({BlankFields} \cup InterruptedFields))
    \cup ({EMPTY, S_x, INT} \X {BlankFields})

\* delete_video's prompts: <<id, confirmation>>
DeleteInputs ==
    (IdNumerals \X {S_yes, S_no})
    \cup ({S_1_padded} \X {S_YES_padded, S_y, EMPTY, INT})
    \cup ({EMPTY, S_x, INT} \X {S_yes})

\* sort_videos' prompts: <<key, reverse>>
SortInputs ==
    ({EMPTY, S_name, <<SPACE>> \o S_time, S_id} \X {EMPTY, S_Y_padded})
    \cup { <<S_Name, EMPTY>>, <<S_x, S_y>>, <<INT, EMPTY>>, <<S_id, INT>>,
           <<S_id, S_yes>> }

\* "", " A", "x" and Ctrl+C
QueryInputs == { EMPTY, <<SPACE, 65>>, S_x, INT }

Video(id, name, time, description, tags) ==
    [id |-> PyInt(id), name |-> PyStr(name), time |-> PyStr(time),
     description |-> PyStr(description), tags |-> PyList(tags)]

\* the record of the update-with-blanks example: no description, no tags
PartialVideo == [id |-> PyInt(1), name |-> PyStr(S_A), time |-> PyStr(S_1_00)]

\* a data file left by an earlier run: records with distinct integer ids >= 1
GoodFiles ==
    { json_dump(<<PartialVideo>>),
      json_dump(<<Video(2, S_B, S_1_00, S_d, <<S_x, S_y>>),
                  Video(1, S_a, EMPTY, EMPTY, <<>>)>>) }

\* a truncated array: json.JSONDecodeError
UnparsableFiles == { <<LB, EncodeObject(PartialVideo)>> }

\* valid JSON whose top level is an object
NonListFiles == { <<EncodeObject(PartialVideo)>> }

InitialFiles == {NoFile} \cup GoodFiles \cup UnparsableFiles \cup NonListFiles

\* an older backup at DATA_FILE + ".corrupt"
OldBackup == <<RB>>

-----------------------------------------------------------------------------
(* Persistence *)

Init ==
    /\ pc = "start"
    /\ videos = <<>>
    /\ disk \in InitialFiles
    /\ corrupt = IF disk \in UnparsableFiles THEN OldBackup ELSE NoFile
    /\ tmp = NoFile
    /\ orphans = 0
    /\ faults = 0
    /\ last = <<"none", "none">>
    /\ saved = "none"
    /\ issued = {}

\* the ids the records of a collection carry
IdsOf(vs) == {ToInt(vs[i]["id"]) : i \in {j \in 1..Len(vs) :
                  "id" \in DOMAIN vs[j] /\ IntOk(vs[j]["id"])}}

\* a faulty load_data: an unparsable file is dropped without the rename
LoadKeepsNoBackup(fault) ==
    /\ pc = "start"
    /\ fault # "none" => faults < MaxFaults /\ disk # NoFile
    /\ fault = "replace" => JsonKind(disk) = "error"
    /\ pc' = "done"
    /\ videos' = IF fault = "read" THEN <<>> ELSE load_data(disk)
    /\ last' = <<"load",
                 CASE disk = NoFile              -> "missing"
                   [] fault = "read"             -> "read_error"
                   [] JsonKind(disk) = "list"    -> "ok"
                   [] JsonKind(disk) = "nonlist" -> "nonlist"
                   [] fault = "replace"          -> "backup_failed"
                   [] OTHER                      -> "quarantined">>
    /\ IF disk # NoFile /\ fault = "none" /\ JsonKind(disk) = "error"
       THEN disk' = NoFile /\ corrupt' = corrupt
       ELSE UNCHANGED <<disk, corrupt>>
    /\ faults' = IF fault = "none" THEN faults ELSE faults + 1
    /\ issued' = {}
    /\ UNCHANGED <<tmp, orphans, saved>>

\* main_loop: videos = load_data().  fault: "none", "read" (open or read
\* raises another exception), "replace" (os.replace to the backup raises)
Load(fault) ==
    /\ pc = "start"
    /\ fault # "none" => faults < MaxFaults /\ disk # NoFile
    /\ fault = "replace" => JsonKind(disk) = "error"
    /\ pc' = "done"
    /\ videos' = IF fault = "read" THEN <<>> ELSE load_data(disk)
    /\ last' = <<"load",
                 CASE disk = NoFile              -> "missing"
                   [] fault = "read"             -> "read_error"
                   [] JsonKind(disk) = "list"    -> "ok"
                   [] JsonKind(disk) = "nonlist" -> "nonlist"
                   [] fault = "replace"          -> "backup_failed"
                   [] OTHER                      -> "quarantined">>
    /\ IF disk # NoFile /\ fault = "none" /\ JsonKind(disk) = "error"
       THEN disk' = NoFile /\ corrupt' = disk
       ELSE UNCHANGED <<disk, corrupt>>
    /\ faults' = IF fault = "none" THEN faults ELSE faults + 1
    /\ issued' = {}
    /\ UNCHANGED <<tmp, orphans, saved>>

SavePcs == {"save_create", "save_write", "save_replace"}

\* tempfile.NamedTemporaryFile("w", dir=dir_name, delete=False)
SaveCreateTemp ==
    /\ pc = "save_create"
    /\ tmp' = <<>>
    /\ pc' = "save_write"
    /\ UNCHANGED <<videos, disk, corrupt, orphans, faults, last, saved, issued>>

\* a faulty save: the text is written straight into DATA_FILE
SaveWriteInPlace ==
    /\ pc = "save_write"
    /\ disk' = json_dump(videos)
    /\ tmp' = json_dump(videos)
    /\ pc' = "save_replace"
    /\ UNCHANGED <<videos, corrupt, orphans, faults, last, saved, issued>>

\* json.dump(videos, tmp, ...); leaving the with block flushes and closes
SaveWrite ==
    /\ pc = "save_write"
    /\ tmp' = json_dump(videos)
    /\ pc' = "save_replace"
    /\ UNCHANGED <<videos, disk, corrupt, orphans, faults, last, saved, issued>>

\* os.replace(tmp_name, file_path), then back in the handler
SaveReplace ==
    /\ pc = "save_replace"
    /\ disk' = tmp
    /\ tmp' = NoFile
    /\ saved' = "ok"
    /\ pc' = "done"
    /\ UNCHANGED <<videos, corrupt, orphans, faults, last, issued>>

\* a step of save_data_atomic raises: logged, "Error: failed to save data.";
\* the temp file, if it was created, stays
SaveFail ==
    /\ pc \in SavePcs
    /\ faults < MaxFaults
    /\ faults' = faults + 1
    /\ orphans' = IF tmp = NoFile THEN orphans ELSE orphans + 1
    /\ tmp' = NoFile
    /\ saved' = "failed"
    /\ pc' = "done"
    /\ UNCHANGED <<videos, disk, corrupt, last, issued>>

\* the texts a write cut short can leave in the file
Prefixes(content) == {SubSeq(content, 1, n) : n \in 0..Len(content)}

\* the process dies inside save_data_atomic (kill, power loss): its memory is
\* gone, the files stay; a write under way leaves some prefix of the text
Crash ==
    /\ pc \in SavePcs
    /\ pc' = "crashed"
    /\ tmp' \in IF pc = "save_write" THEN Prefixes(json_dump(videos)) ELSE {tmp}
    /\ videos' = <<>>
    /\ last' = <<"none", "none">>
    /\ saved' = "none"
    /\ issued' = {}
    /\ UNCHANGED <<disk, corrupt, orphans, faults>>

\* the handler calls save_data_atomic(videos)
RequestSave ==
    /\ pc' = "save_create"
    /\ UNCHANGED <<disk, corrupt, tmp, orphans, faults, saved>>

\* the handler returns having changed nothing and saved nothing
NoSave(op, outcome) ==
    /\ pc' = "done"
    /\ last' = <<op, outcome>>
    /\ UNCHANGED <<videos, disk, corrupt, tmp, orphans, faults, saved, issued>>

\* KeyboardInterrupt leaves the handler and reaches main_loop's except clause:
\* "Interrupted. Exiting."; main_loop returns
Interrupted(op) ==
    /\ pc' = "exited"
    /\ last' = <<op, "interrupt">>
    /\ UNCHANGED <<videos, disk, corrupt, tmp, orphans, faults, saved, issued>>

-----------------------------------------------------------------------------
(* Record operations.  Each takes what the operator types at its prompts;   *)
(* INT at a prompt is KeyboardInterrupt raised by that input() call.        *)

\* the lines typed at one prompt of prompt_nonempty: the first non-blank one,
\* stripped, or INT if the interrupt comes first
RECURSIVE prompt_nonempty(_)
prompt_nonempty(lines) ==
    IF lines = <<>> \/ Head(lines) = INT THEN INT
    ELSE IF Strip(Head(lines)) # EMPTY THEN Strip(Head(lines))
    ELSE prompt_nonempty(Tail(lines))

add_video(titles, time, description, tags_raw) ==
    LET name == prompt_nonempty(titles)
        vid  == Video(next_id(videos), name, Strip(time), Strip(description),
                      ParseTags(Strip(tags_raw)))
    IN  /\ pc = "menu"
        /\ IF INT \in {name, time, description, tags_raw}
           THEN NoSave("add", "cancelled")
           ELSE /\ Len(videos) < MaxVideos
                /\ next_id(videos) <= MaxId
                /\ videos' = Append(videos, vid)
                /\ issued' = issued \cup {next_id(videos)}
                /\ last' = <<"add", "added">>
                /\ RequestSave

\* `input(...).strip() or current`
OrCurrent(typed, current) ==
    IF Strip(typed) # EMPTY THEN PyStr(Strip(typed)) ELSE current

\* a faulty update: what was typed is stored even when it is blank
UpdatedVideoOverwrites(video, name, time, description, tags_raw) ==
    [k \in DOMAIN video \cup {"name", "time", "description", "tags"} |->
        CASE k = "name"        -> PyStr(Strip(name))
          [] k = "time"        -> PyStr(Strip(time))
          [] k = "description" -> PyStr(Strip(description))
          [] k = "tags"        -> PyList(ParseTags(Strip(tags_raw)))
          [] OTHER             -> video[k]]

\* video.update({"name": new_name, "time": new_time, "description": new_desc,
\*               "tags": new_tags})
UpdatedVideo(video, name, time, description, tags_raw) ==
    [k \in DOMAIN video \cup {"name", "time", "description", "tags"} |->
        CASE k = "name"        -> OrCurrent(name, Get(video, "name", PyStr(EMPTY)))
          [] k = "time"        -> OrCurrent(time, Get(video, "time", PyStr(EMPTY)))
          [] k = "description" ->
                 OrCurrent(description, Get(video, "description", PyStr(EMPTY)))
          [] k = "tags"        ->
                 IF Strip(tags_raw) # EMPTY
                 THEN PyList(ParseTags(Strip(tags_raw)))
                 ELSE Get(video, "tags", PyList(<<>>))
          [] OTHER             -> video[k]]

update_video(raw, name, time, description, tags_raw) ==
    LET idx == find_index_by_id(videos, StrToInt(raw))
    IN  /\ pc = "menu"
        /\ IF videos = <<>> THEN NoSave("update", "empty")
           ELSE IF raw = INT THEN Interrupted("update")
           ELSE IF Strip(raw) = EMPTY THEN NoSave("update", "cancelled")
           ELSE IF ~IsDigit(Strip(raw)) THEN NoSave("update", "invalid")
           ELSE IF idx = 0 THEN NoSave("update", "notfound")
           ELSE IF INT \in {name, time, description, tags_raw}
                THEN Interrupted("update")
           ELSE /\ videos' = [videos EXCEPT ![idx] =
                                 UpdatedVideo(@, name, time, description, tags_raw)]
                /\ last' = <<"update", "updated">>
                /\ UNCHANGED issued
                /\ RequestSave

\* list.pop(idx)
Pop(vs, idx) == SubSeq(vs, 1, idx - 1) \o SubSeq(vs, idx + 1, Len(vs))

\* a faulty confirmation: the raw input is compared with "yes"
ConfirmedExact(confirm) == confirm = S_yes

\* confirm.strip().lower() == "yes"
Confirmed(confirm) == Lower(Strip(confirm)) = S_yes

delete_video(raw, confirm) ==
    LET idx == find_index_by_id(videos, StrToInt(raw))
    IN  /\ pc = "menu"
        /\ IF videos = <<>> THEN NoSave("delete", "empty")
           ELSE IF raw = INT THEN Interrupted("delete")
           ELSE IF Strip(raw) = EMPTY THEN NoSave("delete", "cancelled")
           ELSE IF ~IsDigit(Strip(raw)) THEN NoSave("delete", "invalid")
           ELSE IF idx = 0 THEN NoSave("delete", "notfound")
           ELSE IF confirm = INT THEN Interrupted("delete")
           ELSE IF ~Confirmed(confirm) THEN NoSave("delete", "declined")
           ELSE /\ videos' = Pop(videos, idx)
                /\ last' = <<"delete", "deleted">>
                /\ UNCHANGED issued
                /\ RequestSave

\* needle in hay
Contains(hay, needle) ==
    \E i \in 0..(Len(hay) - Len(needle)) :
        SubSeq(hay, i + 1, i + Len(needle)) = needle

search_videos(q) ==
    LET q_lower == Lower(Strip(q))
        hits == {i \in 1..Len(videos) :
                   \/ Contains(Lower(Get(videos[i], "name", PyStr(EMPTY))[2]), q_lower)
                   \/ Contains(Lower(Get(videos[i], "description", PyStr(EMPTY))[2]),
                               q_lower)}
    IN  /\ pc = "menu"
        /\ IF videos = <<>> THEN NoSave("search", "empty")
           ELSE IF q = INT THEN Interrupted("search")
           ELSE IF Strip(q) = EMPTY THEN NoSave("search", "cancelled")
           ELSE IF hits = {} THEN NoSave("search", "nomatch")
           ELSE NoSave("search", "shown")

-----------------------------------------------------------------------------
(* Sort *)

\* the dict key a typed sort key names
KeyName(key) == CASE key = S_name -> "name"
                  [] key = S_time -> "time"
                  [] OTHER        -> "id"

\* lambda v: v.get(key, "")
SortKey(v, key) == Get(v, KeyName(key), PyStr(EMPTY))

\* Python's < on two sort keys of one type (int with int, str with str)
KeyLess(a, b) == IF a[1] = "int" /\ b[1] = "int" THEN a[2] < b[2]
                 ELSE StrLess(a[2], b[2])

\* x is placed before y: list.sort compares keys, the other way round for reverse
Before(x, y, key, reverse) ==
    IF reverse THEN KeyLess(SortKey(y, key), SortKey(x, key))
    ELSE KeyLess(SortKey(x, key), SortKey(y, key))

RECURSIVE Insert(_, _, _, _)
Insert(sorted, x, key, reverse) ==
    IF sorted = <<>> THEN <<x>>
    ELSE IF Before(x, Head(sorted), key, reverse) THEN <<x>> \o sorted
    ELSE <<Head(sorted)>> \o Insert(Tail(sorted), x, key, reverse)

RECURSIVE StableSort(_, _, _)
StableSort(vs, key, reverse) ==
    IF vs = <<>> THEN <<>>
    ELSE Insert(StableSort(SubSeq(vs, 1, Len(vs) - 1), key, reverse),
                vs[Len(vs)], key, reverse)

\* list.reverse
Reversed(vs) == [i \in 1..Len(vs) |-> vs[Len(vs) + 1 - i]]

\* a faulty descending sort: the ascending order turned round, which also
\* turns round records of equal key
SortedReversingAscending(vs, key, reverse) ==
    IF reverse THEN Reversed(StableSort(vs, key, FALSE))
    ELSE StableSort(vs, key, FALSE)

\* videos.sort(key=lambda v: v.get(key, ""), reverse=reverse): a stable sort
Sorted(vs, key, reverse) == StableSort(vs, key, reverse)

\* input(...).strip() or "name"
ChosenKey(key_raw) == IF Strip(key_raw) = EMPTY THEN S_name ELSE Strip(key_raw)

\* reverse_raw == "y" after strip().lower()
ReverseChosen(reverse_raw) == Lower(Strip(reverse_raw)) = S_y

sort_videos(key_raw, reverse_raw) ==
    LET key == ChosenKey(key_raw)
        reverse == ReverseChosen(reverse_raw)
    IN  /\ pc = "menu"
        /\ IF videos = <<>> THEN NoSave("sort", "empty")
           ELSE IF key_raw = INT THEN Interrupted("sort")
           ELSE IF key \notin {S_name, S_time, S_id} THEN NoSave("sort", "invalid")
           ELSE IF reverse_raw = INT THEN Interrupted("sort")
           ELSE /\ videos' = Sorted(videos, key, reverse)
                /\ last' = <<"sort", IF reverse THEN "descending" ELSE "ascending">>
                /\ UNCHANGED issued
                /\ RequestSave

-----------------------------------------------------------------------------
(* main_loop *)

\* choice "1"
list_all_videos == pc = "menu" /\ NoSave("list", "shown")

\* choice "7": "Goodbye!", break
Exit ==
    /\ pc = "menu"
    /\ pc' = "exited"
    /\ last' = <<"menu", "goodbye">>
    /\ UNCHANGED <<videos, disk, corrupt, tmp, orphans, faults, saved, issued>>

\* any other line: "Please enter a number between 1 and 7."
InvalidChoice == pc = "menu" /\ NoSave("menu", "invalid")

\* KeyboardInterrupt at "Enter choice (1-7): "
MenuInterrupt == pc = "menu" /\ Interrupted("menu")

\* the handler has returned: print(MENU) and prompt again
Loop ==
    /\ pc = "done"
    /\ pc' = "menu"
    /\ last' = <<"none", "none">>
    /\ saved' = "none"
    /\ UNCHANGED <<videos, disk, corrupt, tmp, orphans, faults, issued>>

Next ==
    \/ \E fault \in {"none", "read", "replace"} : Load(fault)
    \/ Loop
    \/ list_all_videos
    \/ \E in \in AddInputs : add_video(in[1], in[2], in[3], in[4])
    \/ \E in \in UpdateInputs :
          update_video(in[1], in[2][1], in[2][2], in[2][3], in[2][4])
    \/ \E in \in DeleteInputs : delete_video(in[1], in[2])
    \/ \E q \in QueryInputs : search_videos(q)
    \/ \E in \in SortInputs : sort_videos(in[1], in[2])
    \/ Exit
    \/ InvalidChoice
    \/ MenuInterrupt
    \/ SaveCreateTemp
    \/ SaveWrite
    \/ SaveReplace
    \/ SaveFail
    \/ Crash

Spec == Init /\ [][Next]_vars

-----------------------------------------------------------------------------
(* next_id on its own: collections whose ids are integers, numerals in a    *)
(* str, other strs, None, or missing                                         *)

IdValues == { PyInt(1), PyInt(3), PyInt(0 - 2), PyStr(<<50>>),
              PyStr(<<SPACE, 55, SPACE>>), PyStr(S_x), PyNone }

IdRecords == { [id |-> x] : x \in IdValues } \cup { [name |-> PyStr(S_A)] }

IdCollections == UNION { [1..n -> IdRecords] : n \in 0..MaxVideos }

InitNextId ==
    /\ pc = "call"
    /\ videos \in IdCollections
    /\ disk = NoFile
    /\ corrupt = NoFile
    /\ tmp = NoFile
    /\ orphans = 0
    /\ faults = 0
    /\ last = <<"none", 0>>
    /\ saved = "none"
    /\ issued = {}

\* a call of next_id(videos); last holds what it returned
CallNextId ==
    /\ pc = "call"
    /\ pc' = "returned"
    /\ last' = <<"next_id", next_id(videos)>>
    /\ UNCHANGED <<videos, disk, corrupt, tmp, orphans, faults, saved, issued>>

NextNextId == CallNextId

SpecNextId == InitNextId /\ [][NextNextId]_vars

-----------------------------------------------------------------------------
(* Properties *)

\* the ids of a collection, position by position
IdSeq(vs) == [i \in 1..Len(vs) |-> vs[i]["id"]]

\* a handler step that leaves the collection alone, starts no save and returns
\* to main_loop's loop
BackToMenuUnchanged ==
    /\ pc' = "done"
    /\ videos' = videos
    /\ UNCHANGED <<disk, corrupt, tmp, orphans, saved>>

\* a handler step that has called save_data_atomic
SaveStarted == pc' = "save_create"

\* one step inside save_data_atomic, as C1 wants it
AtomicSaveStep ==
    pc \in SavePcs =>
        /\ \/ disk' = disk
           \/ pc = "save_replace" /\ disk' = json_dump(videos)
        /\ pc \in {"save_create", "save_write"} => disk' = disk
        /\ pc' = "crashed" =>
             /\ disk' = disk
             /\ pc # "save_create" => tmp' \in Prefixes(json_dump(videos))

\* C1: while save_data_atomic runs, every step (a crash included) leaves
\* DATA_FILE as it was or, at the replace, makes it exactly the complete
\* serialization of the collection; a crash leaves DATA_FILE untouched and,
\* once the temp file exists, leaves that temp file behind
C1_SaveIsAtomic == [][AtomicSaveStep]_vars

\* C1 witness: the process died while writing a two-record collection, the temp
\* file holds a partial text and DATA_FILE still holds its previous valid content
C1_Witness ==
    /\ pc = "crashed"
    /\ Len(tmp) = 2
    /\ JsonKind(tmp) = "error"
    /\ JsonKind(disk) = "list"
    /\ Len(load_data(disk)) = 1

\* C2: when a mutating operation has returned and its save did not fail,
\* loading DATA_FILE gives the in-memory collection, record for record
C2_DiskFollowsMemory ==
    pc = "done" /\ saved = "ok" =>
        /\ JsonKind(disk) = "list"
        /\ load_data(disk) = videos

\* C2 witness: an update of a two-record collection has been saved
C2_Witness ==
    /\ pc = "done"
    /\ saved = "ok"
    /\ last = <<"update", "updated">>
    /\ Len(videos) = 2
    /\ \E i \in 1..2 : DOMAIN videos[i] # DOMAIN PartialVideo

\* the id add_video has just given the record it appended
NewId == ToInt(videos'[Len(videos')]["id"])

AddStep == pc = "menu" /\ pc' = "save_create" /\ last' = <<"add", "added">>

\* C3 as claimed: the id add_video assigns was never carried by a record
\* earlier in the run, deleted records included
C3_NeverReusesIssuedId == [][AddStep => NewId \notin issued]_vars

\* C3 as amended: the id add_video assigns is greater than the id of every
\* record in the collection at that moment
C3_NewIdAboveCurrent ==
    [][AddStep => \A i \in 1..Len(videos) : NewId > ToInt(videos[i]["id"])]_vars

\* C3 witness: add_video has assigned an id in a run in which a record it had
\* given an id to was deleted
C3_Witness ==
    /\ pc = "save_create"
    /\ last = <<"add", "added">>
    /\ \E n \in issued : n \notin IdsOf(videos)

\* the inputs with Ctrl+C at some prompt
AddInterrupts == {in \in AddInputs : INT \in {prompt_nonempty(in[1]), in[2], in[3], in[4]}}

UpdateInterrupts ==
    {in \in UpdateInputs : INT \in {in[1], in[2][1], in[2][2], in[2][3], in[2][4]}}

DeleteInterrupts == {in \in DeleteInputs : INT \in {in[1], in[2]}}

SortInterrupts == {in \in SortInputs : INT \in {in[1], in[2]}}

\* a step of a record operation in which the operator interrupts a prompt
\* returns to the menu loop with the collection as it was and no save
InterruptOnlyCancels ==
    /\ \A in \in AddInterrupts :
          add_video(in[1], in[2], in[3], in[4]) => BackToMenuUnchanged
    /\ \A in \in UpdateInterrupts :
          update_video(in[1], in[2][1], in[2][2], in[2][3], in[2][4])
              => BackToMenuUnchanged
    /\ \A in \in DeleteInterrupts : delete_video(in[1], in[2]) => BackToMenuUnchanged
    /\ search_videos(INT) => BackToMenuUnchanged
    /\ \A in \in SortInterrupts : sort_videos(in[1], in[2]) => BackToMenuUnchanged

\* C4 as claimed: an interrupt at any prompt of add, update, delete, search or
\* sort aborts only that operation: collection unchanged, no save, back at the
\* menu; the program ends only from the top-level menu prompt
C4_InterruptAbortsOnlyOperation ==
    /\ [][InterruptOnlyCancels]_vars
    /\ [](pc = "exited" => last[1] = "menu")

\* C4 witness: Ctrl+C at a prompt of update_video has ended the program, the
\* collection holding records
C4_Witness ==
    /\ pc = "exited"
    /\ last = <<"update", "interrupt">>
    /\ videos # <<>>

\* a malformed DATA_FILE is loaded and the rename to the backup does not fail
LoadsMalformed(kinds) ==
    /\ pc = "start"
    /\ disk # NoFile
    /\ JsonKind(disk) \in kinds
    /\ faults' = faults

QuarantineStep(kinds) ==
    /\ LoadsMalformed(kinds) => videos' = <<>> /\ corrupt' = disk
    /\ pc # "start" => corrupt' = corrupt

\* C5 as claimed: a malformed file, unparsable or valid JSON that is no array,
\* loads as the empty collection and is kept, byte for byte, at
\* DATA_FILE.corrupt, which nothing later in the run overwrites
C5_MalformedIsQuarantined == [][QuarantineStep({"error", "nonlist"})]_vars

NonListStep ==
    LoadsMalformed({"nonlist"}) =>
        /\ videos' = <<>>
        /\ disk' = disk
        /\ corrupt' = corrupt

\* C5 as amended: an unparsable file loads as the empty collection and is
\* moved, byte for byte, to DATA_FILE.corrupt, which nothing later in the run
\* overwrites; valid JSON that is no array loads as the empty collection and is
\* left in place with no backup
C5_UnparsableIsQuarantined ==
    /\ [][QuarantineStep({"error"})]_vars
    /\ [][LoadsMalformed({"error"}) => disk' = NoFile]_vars
    /\ [][NonListStep]_vars

\* C5 witness: load_data has moved an unparsable file aside, over the older backup
C5_Witness ==
    /\ pc = "done"
    /\ last = <<"load", "quarantined">>
    /\ videos = <<>>
    /\ disk = NoFile
    /\ corrupt \in UnparsableFiles

\* every record carries an int id >= 1 and no two records carry the same id
IdsUniquePositive ==
    /\ \A i \in 1..Len(videos) :
          /\ "id" \in DOMAIN videos[i]
          /\ videos[i]["id"][1] = "int"
          /\ videos[i]["id"][2] >= 1
    /\ \A i, j \in 1..Len(videos) : i # j => videos[i]["id"] # videos[j]["id"]

\* vs is ws with the record at some position taken out
IsRemovalOf(vs, ws) == \E i \in 1..Len(ws) : vs = Pop(ws, i)

\* vs holds the records of ws, each exactly once, in some order
IsPermutationOf(vs, ws) ==
    /\ Len(vs) = Len(ws)
    /\ \E p \in [1..Len(ws) -> 1..Len(ws)] :
          /\ \A i, j \in 1..Len(ws) : i # j => p[i] # p[j]
          /\ \A i \in 1..Len(ws) : vs[i] = ws[p[i]]

\* a step of an operation lets every record that stays keep its id
IdsKeptStep ==
    /\ \A in \in AddInputs :
          add_video(in[1], in[2], in[3], in[4]) =>
              SubSeq(IdSeq(videos'), 1, Len(videos)) = IdSeq(videos)
    /\ \A in \in UpdateInputs :
          update_video(in[1], in[2][1], in[2][2], in[2][3], in[2][4]) =>
              IdSeq(videos') = IdSeq(videos)
    /\ \A in \in DeleteInputs :
          delete_video(in[1], in[2]) =>
              videos' = videos \/ IsRemovalOf(videos', videos)
    /\ \A q \in QueryInputs : search_videos(q) => videos' = videos
    /\ \A in \in SortInputs :
          sort_videos(in[1], in[2]) => IsPermutationOf(videos', videos)

\* C6: from the empty collection or a loaded one whose ids are distinct
\* integers >= 1, after any sequence of add, update, delete, search and sort
\* every two records have different ids, every id is an integer >= 1, and no
\* operation changes the id of a record that stays in the collection
C6_IdsUniqueImmutable ==
    /\ [](IdsUniquePositive)
    /\ [][IdsKeptStep]_vars

\* C6 witness: a record was added after the record with the lowest id had been
\* deleted, so the count of records is below the highest id
C6_Witness ==
    /\ pc = "save_create"
    /\ last = <<"add", "added">>
    /\ Len(videos) = 2
    /\ \E n \in issued : n \notin IdsOf(videos)
    /\ \A i \in 1..Len(videos) : videos[i]["id"][2] >= 2

\* the typed id names a record of the collection
Found(raw) ==
    /\ videos # <<>>
    /\ raw # INT
    /\ IsDigit(Strip(raw))
    /\ find_index_by_id(videos, StrToInt(raw)) # 0

\* the typed id is empty, not a number, or the id of no record
NotFound(raw) ==
    /\ raw # INT
    /\ \/ videos = <<>>
       \/ ~IsDigit(Strip(raw))
       \/ find_index_by_id(videos, StrToInt(raw)) = 0

\* the update inputs whose four new values are all blank
BlankUpdates ==
    {in \in UpdateInputs : \A k \in 1..4 : in[2][k] # INT /\ Strip(in[2][k]) = EMPTY}

BlankUpdateIsNoOp ==
    \A in \in BlankUpdates :
        Found(in[1]) /\ update_video(in[1], in[2][1], in[2][2], in[2][3], in[2][4]) =>
            /\ videos' = videos
            /\ SaveStarted

\* C7 as claimed: an update whose new values are all blank leaves the found
\* record, also one that carries only some of the fields, and the whole
\* collection equal to what they were (same fields, same values, same order),
\* and a save is still performed
C7_BlankUpdateIsNoOp == [][BlankUpdateIsNoOp]_vars

\* the record as the prompts of update_video read it: a missing name, time or
\* description is "", missing tags are []
WithDefaults(v) ==
    [k \in DOMAIN v \cup {"name", "time", "description", "tags"} |->
        IF k \in DOMAIN v THEN v[k]
        ELSE IF k = "tags" THEN PyList(<<>>) ELSE PyStr(EMPTY)]

FourFields == {"name", "time", "description", "tags"}

BlankUpdateKeepsValues ==
    \A in \in BlankUpdates :
        Found(in[1]) /\ update_video(in[1], in[2][1], in[2][2], in[2][3], in[2][4]) =>
            LET idx == find_index_by_id(videos, StrToInt(in[1]))
            IN  /\ Len(videos') = Len(videos)
                /\ \A i \in 1..Len(videos) : i # idx => videos'[i] = videos[i]
                /\ videos'[idx] = WithDefaults(videos[idx])
                /\ FourFields \subseteq DOMAIN videos[idx] => videos' = videos
                /\ SaveStarted

\* C7 as amended: an update whose new values are all blank keeps every value
\* of the found record, the order and all other records, and a save is still
\* performed; a record that carries all four fields is left exactly equal,
\* while one that lacks some of them gains each missing field with its default
\* ("" for name, time, description; [] for tags)
C7_BlankUpdateKeepsValues == [][BlankUpdateKeepsValues]_vars

\* C7 witness: the record {id: 1, name: "A", time: "1:00"} has gone through an
\* all-blank update and now carries description and tags as well
C7_Witness ==
    /\ pc = "save_create"
    /\ last = <<"update", "updated">>
    /\ Len(videos) = 1
    /\ videos[1] = WithDefaults(PartialVideo)
    /\ videos[1] # PartialVideo
    /\ load_data(disk) = <<PartialVideo>>

\* every id of the collection is there and int() accepts it
IdsInterpretable(vs) ==
    \A i \in 1..Len(vs) : "id" \in DOMAIN vs[i] /\ IntOk(vs[i]["id"])

\* some record carries an id that int() rejects
SomeIdMalformed(vs) ==
    \E i \in 1..Len(vs) : "id" \in DOMAIN vs[i] /\ ~IntOk(vs[i]["id"])

\* C8: next_id returns 1 for the empty collection; when every record's id is
\* interpretable as an integer it returns the greatest of them plus one, which
\* is above every id; when some record's id is not interpretable it returns
\* the count of records plus one
C8_NextId ==
    pc = "returned" =>
        /\ last[1] = "next_id"
        /\ videos = <<>> => last[2] = 1
        /\ videos # <<>> /\ IdsInterpretable(videos) =>
              /\ \E i \in 1..Len(videos) : last[2] = ToInt(videos[i]["id"]) + 1
              /\ \A i \in 1..Len(videos) : last[2] > ToInt(videos[i]["id"])
        /\ SomeIdMalformed(videos) => last[2] = Len(videos) + 1

\* C8 witness: next_id has fallen back to the count for a collection that
\* holds an id of 3 next to an id int() rejects
C8_Witness ==
    /\ pc = "returned"
    /\ Len(videos) = 2
    /\ videos[1]["id"] = PyInt(3)
    /\ SomeIdMalformed(videos)
    /\ last = <<"next_id", 3>>

\* "yes", compared case-insensitively after trimming
IsYes(confirm) == confirm # INT /\ Lower(Strip(confirm)) = S_yes

\* the position of the first record whose id is n
FirstWithId(vs, n) ==
    CHOOSE i \in 1..Len(vs) :
        /\ vs[i]["id"] = PyInt(n)
        /\ \A j \in 1..(i - 1) : vs[j]["id"] # PyInt(n)

DeleteNeedsYes ==
    \A in \in DeleteInputs :
        delete_video(in[1], in[2]) =>
            /\ Found(in[1]) /\ in[2] # INT /\ ~IsYes(in[2]) => BackToMenuUnchanged
            /\ Found(in[1]) /\ IsYes(in[2]) =>
                  LET at == FirstWithId(videos, StrToInt(in[1]))
                  IN  /\ Len(videos') = Len(videos) - 1
                      /\ \A j \in 1..(at - 1) : videos'[j] = videos[j]
                      /\ \A j \in at..Len(videos') : videos'[j] = videos[j + 1]
                      /\ SaveStarted
            /\ NotFound(in[1]) => BackToMenuUnchanged

\* C9: with a found id, a confirmation other than "yes" (case-insensitive,
\* trimmed) leaves the collection unchanged with no save; "yes" removes exactly
\* the first record with that id, keeps the others in order, and saves; an
\* empty, non-numeric or not-found id changes nothing and saves nothing
C9_DeleteNeedsYes == [][DeleteNeedsYes]_vars

\* C9 witness: the first of two records has been deleted after a confirmation
C9_Witness ==
    /\ pc = "save_create"
    /\ last = <<"delete", "deleted">>
    /\ Len(videos) = 1
    /\ JsonKind(disk) = "list"
    /\ Len(load_data(disk)) = 2
    /\ videos[1] = load_data(disk)[2]

\* vs is in the order of the key, ascending or (reverse) descending
Ordered(vs, key, reverse) ==
    \A i, j \in 1..Len(vs) :
        i < j => IF reverse
                 THEN ~KeyLess(SortKey(vs[i], key), SortKey(vs[j], key))
                 ELSE ~KeyLess(SortKey(vs[j], key), SortKey(vs[i], key))

\* vs is a permutation of ws that keeps records of equal key in ws's order
IsStablePermutationOf(vs, ws, key) ==
    /\ Len(vs) = Len(ws)
    /\ \E p \in [1..Len(ws) -> 1..Len(ws)] :
          /\ \A i, j \in 1..Len(ws) : i # j => p[i] # p[j]
          /\ \A i \in 1..Len(ws) : vs[i] = ws[p[i]]
          /\ \A i, j \in 1..Len(ws) :
                i < j /\ SortKey(vs[i], key) = SortKey(vs[j], key) => p[i] < p[j]

SortIsStable ==
    \A in \in SortInputs :
        videos # <<>> /\ in[1] # INT /\ sort_videos(in[1], in[2]) =>
            LET key == IF Strip(in[1]) = EMPTY THEN S_name ELSE Strip(in[1])
            IN  IF key \in {S_name, S_time, S_id}
                THEN in[2] # INT =>
                        /\ IsStablePermutationOf(videos', videos, key)
                        /\ Ordered(videos', key, Lower(Strip(in[2])) = S_y)
                        /\ SaveStarted
                ELSE BackToMenuUnchanged

\* C10: for a key among name, time and id (blank meaning name) the collection
\* after Sort is a permutation of the one before, non-decreasing by the key
\* (non-increasing with the reverse flag), records of equal key in their
\* previous order, and a save follows; any other key changes nothing and
\* saves nothing
C10_SortIsStable == [][SortIsStable]_vars

\* C10 witness: a descending sort has run over two records of equal key, which
\* kept their order, the collection on disk being a list of the same two
C10_Witness ==
    /\ pc = "save_create"
    /\ last = <<"sort", "descending">>
    /\ Len(videos) = 2
    /\ videos[1]["id"][2] < videos[2]["id"][2]
    /\ \A k \in {"name", "time"} : videos[1][k] = videos[2][k]

=============================================================================
